---- MODULE Spec2Model ----
(***************************************************************************)
(* Checkers agent of src/main.py: the Board (grid, piece and king          *)
(* counters, move_piece, remove_piece, get_valid_moves, clone) and the     *)
(* minimax search with its per-piece alpha-beta cutoff.                    *)
(*                                                                         *)
(* A Piece object is the record [color, king].  A Board object is the      *)
(* record [board, white_left, black_left, white_kings, black_kings] whose  *)
(* field board is the list of rows.  Scores are kept in half points:       *)
(* evaluate returns twice the float the program computes (the program's    *)
(* scores are multiples of 0.5), and float('inf') is the integer Inf,      *)
(* which no reachable score attains.                                       *)
(***************************************************************************)
EXTENDS Integers, Sequences, FiniteSets, TLC

WHITE == "white"
BLACK == "black"
NOCOLOR == "none"
ROWS == 8
COLS == 8
Inf == 1000

\* EMPTY is Python's None in a grid cell
EMPTY == [color |-> NOCOLOR, king |-> FALSE]

Piece(color, king) == [color |-> color, king |-> king]

\* make_king that flips the flag
make_king_toggle(piece) == [piece EXCEPT !.king = ~@]

\* Piece.make_king: self.king = True
make_king(piece) == [piece EXCEPT !.king = TRUE]

RowIdx == 0 .. (ROWS - 1)
ColIdx == 0 .. (COLS - 1)

\* ---------------------------------------------------------------- bounds
MaxPieces == 3
MaxSearchPieces == 2
MaxApiPieces == 2
MaxDepth == 3
MaxMoves == 1
MaxCalls == 2
MaxPlies == 4
MaxSearches == 1
MaxWindowPieces == 3
MaxWindowDepth == 1
MaxOpeningPlies == 2
MaxGameMoves == 144
MaxColumn == 2
MaxStripPlies == 9

\* ---------------------------------------------------------------- Board

\* create_board with the two colors on each other's rows
create_board_swapped ==
    [row \in RowIdx |-> [col \in ColIdx |->
        IF row < 3 /\ col % 2 = row % 2 THEN Piece(WHITE, FALSE)
        ELSE IF row >= 5 /\ col % 2 = row % 2 THEN Piece(BLACK, FALSE)
        ELSE EMPTY]]

\* Board.create_board: black on rows 0..2, white on rows 5..7, on the cells
\* col = row % 2, row % 2 + 2, ...
create_board ==
    [row \in RowIdx |-> [col \in ColIdx |->
        IF row < 3 /\ col % 2 = row % 2 THEN Piece(BLACK, FALSE)
        ELSE IF row >= 5 /\ col % 2 = row % 2 THEN Piece(WHITE, FALSE)
        ELSE EMPTY]]

\* Board.__init__
NewBoard ==
    [board |-> create_board,
     white_left |-> 12, black_left |-> 12,
     white_kings |-> 0, black_kings |-> 0]

\* Board.get_piece
get_piece(b, row, col) == b.board[row][col]

\* move_piece that promotes on the far rank of the piece's color (white on
\* row 0, black on row ROWS - 1)
move_piece_far_rank(b, piece, start, end) ==
    LET cleared == [b.board EXCEPT ![start[1]][start[2]] = EMPTY]
        promoW == end[1] = 0 /\ piece.color = WHITE
        promoB == ~promoW /\ end[1] = ROWS - 1 /\ piece.color = BLACK
        moved == IF promoW \/ promoB THEN make_king(piece) ELSE piece
    IN  [b EXCEPT !.board = [cleared EXCEPT ![end[1]][end[2]] = moved],
                  !.white_kings = IF promoW THEN @ + 1 ELSE @,
                  !.black_kings = IF promoB THEN @ + 1 ELSE @]

\* move_piece that promotes a piece of either color on both edge rows
move_piece_edge_rows(b, piece, start, end) ==
    LET cleared == [b.board EXCEPT ![start[1]][start[2]] = EMPTY]
        edge == end[1] = 0 \/ end[1] = ROWS - 1
        promoW == edge /\ piece.color = WHITE
        promoB == edge /\ piece.color = BLACK
        moved == IF promoW \/ promoB THEN make_king(piece) ELSE piece
    IN  [b EXCEPT !.board = [cleared EXCEPT ![end[1]][end[2]] = moved],
                  !.white_kings = IF promoW THEN @ + 1 ELSE @,
                  !.black_kings = IF promoB THEN @ + 1 ELSE @]

\* Board.move_piece(piece, start, end).  piece is the object handed in by the
\* caller; it is written into the end cell and, on the promotion rank of its
\* color, make_king is called on it and the king counter is incremented.
move_piece(b, piece, start, end) ==
    LET cleared == [b.board EXCEPT ![start[1]][start[2]] = EMPTY]
        promoW == end[1] = ROWS - 1 /\ piece.color = WHITE
        promoB == ~promoW /\ end[1] = 0 /\ piece.color = BLACK
        moved == IF promoW \/ promoB THEN make_king(piece) ELSE piece
    IN  [b EXCEPT !.board = [cleared EXCEPT ![end[1]][end[2]] = moved],
                  !.white_kings = IF promoW THEN @ + 1 ELSE @,
                  !.black_kings = IF promoB THEN @ + 1 ELSE @]

\* remove_one with the black counter left alone
remove_one_no_black_count(b, pos) ==
    LET removed_piece == b.board[pos[1]][pos[2]]
    IN  IF removed_piece = EMPTY THEN b
        ELSE IF removed_piece.color = WHITE
        THEN [b EXCEPT !.white_left = @ - 1,
                       !.white_kings = IF removed_piece.king THEN @ - 1 ELSE @,
                       !.board[pos[1]][pos[2]] = EMPTY]
        ELSE [b EXCEPT !.black_kings = IF removed_piece.king THEN @ - 1 ELSE @,
                       !.board[pos[1]][pos[2]] = EMPTY]

\* remove_one that leaves the piece in its cell
remove_one_keeps_cell(b, pos) ==
    LET removed_piece == b.board[pos[1]][pos[2]]
    IN  IF removed_piece = EMPTY THEN b
        ELSE IF removed_piece.color = WHITE
        THEN [b EXCEPT !.white_left = @ - 1,
                       !.white_kings = IF removed_piece.king THEN @ - 1 ELSE @]
        ELSE [b EXCEPT !.black_left = @ - 1,
                       !.black_kings = IF removed_piece.king THEN @ - 1 ELSE @]

\* one iteration of the loop of Board.remove_piece
remove_one(b, pos) ==
    LET removed_piece == b.board[pos[1]][pos[2]]
    IN  IF removed_piece = EMPTY THEN b
        ELSE IF removed_piece.color = WHITE
        THEN [b EXCEPT !.white_left = @ - 1,
                       !.white_kings = IF removed_piece.king THEN @ - 1 ELSE @,
                       !.board[pos[1]][pos[2]] = EMPTY]
        ELSE [b EXCEPT !.black_left = @ - 1,
                       !.black_kings = IF removed_piece.king THEN @ - 1 ELSE @,
                       !.board[pos[1]][pos[2]] = EMPTY]

\* Board.remove_piece(pieces): the positions are processed in list order
RECURSIVE remove_piece(_, _)
remove_piece(b, pieces) ==
    IF pieces = << >> THEN b
    ELSE remove_piece(remove_one(b, Head(pieces)), Tail(pieces))

\* the row-major scan order of get_all_pieces
AllCells == [i \in 1 .. (ROWS * COLS) |-> << (i - 1) \div COLS, (i - 1) % COLS >>]

\* get_all_pieces that does not test the color
get_all_pieces_any_color(b, color) ==
    SelectSeq(AllCells, LAMBDA p : b.board[p[1]][p[2]] # EMPTY)

\* Board.get_all_pieces(color): the positions, in row-major order, of the
\* pieces of that color (the piece object of an entry is the one in that cell)
get_all_pieces(b, color) ==
    SelectSeq(AllCells, LAMBDA p : b.board[p[1]][p[2]].color = color)

\* _traverse that does not test the landing cell of a jump for emptiness
traverse_no_landing_test(b, start_row, start_col, row_inc, col_inc, color, skipped, depth) ==
    LET row == start_row + row_inc
        col == start_col + col_inc
        new_row == row + row_inc
        new_col == col + col_inc
    IN  IF 0 <= row /\ row < ROWS /\ 0 <= col /\ col < COLS
        THEN IF get_piece(b, row, col) = EMPTY
             THEN << [to |-> <<row, col>>, skipped |-> skipped] >>
             ELSE IF get_piece(b, row, col).color # color
                     /\ 0 <= new_row /\ new_row < ROWS
                     /\ 0 <= new_col /\ new_col < COLS
             THEN << [to |-> <<new_row, new_col>>,
                      skipped |-> skipped \o << <<row, col>> >>] >>
             ELSE << >>
        ELSE << >>

\* Board._traverse: at most one destination in the direction (row_inc, col_inc)
\* a dict is the sequence of its items [to, skipped] in insertion order
traverse(b, start_row, start_col, row_inc, col_inc, color, skipped, depth) ==
    LET row == start_row + row_inc
        col == start_col + col_inc
        new_row == row + row_inc
        new_col == col + col_inc
    IN  IF 0 <= row /\ row < ROWS /\ 0 <= col /\ col < COLS
        THEN IF get_piece(b, row, col) = EMPTY
             THEN << [to |-> <<row, col>>, skipped |-> skipped] >>
             ELSE IF get_piece(b, row, col).color # color
                     /\ 0 <= new_row /\ new_row < ROWS
                     /\ 0 <= new_col /\ new_col < COLS
                     /\ get_piece(b, new_row, new_col) = EMPTY
             THEN << [to |-> <<new_row, new_col>>,
                      skipped |-> skipped \o << <<row, col>> >>] >>
             ELSE << >>
        ELSE << >>

\* dict.update: an existing key keeps its place and takes the new value, a new
\* key is appended
RECURSIVE dict_update(_, _)
dict_update(moves, items) ==
    IF items = << >> THEN moves
    ELSE LET it == Head(items)
             hit == {i \in 1 .. Len(moves) : moves[i].to = it.to}
         IN  dict_update(
                 IF hit = {} THEN Append(moves, it)
                 ELSE [i \in 1 .. Len(moves) |->
                          IF i \in hit THEN it ELSE moves[i]],
                 Tail(items))

\* get_valid_moves that tries the four directions for every piece
get_valid_moves_all_directions(b, piece, row, col) ==
    dict_update(
        dict_update(
            dict_update(
                dict_update(<< >>,
                    traverse(b, row, col, -1, -1, piece.color, << >>, 1)),
                traverse(b, row, col, -1, 1, piece.color, << >>, 1)),
            traverse(b, row, col, 1, -1, piece.color, << >>, 1)),
        traverse(b, row, col, 1, 1, piece.color, << >>, 1))

\* Board.get_valid_moves(piece, row, col)
get_valid_moves(b, piece, row, col) ==
    LET up == IF piece.color = WHITE \/ piece.king
              THEN dict_update(
                       dict_update(<< >>,
                           traverse(b, row, col, -1, -1, piece.color, << >>, 1)),
                       traverse(b, row, col, -1, 1, piece.color, << >>, 1))
              ELSE << >>
    IN  IF piece.color = BLACK \/ piece.king
        THEN dict_update(
                 dict_update(up,
                     traverse(b, row, col, 1, -1, piece.color, << >>, 1)),
                 traverse(b, row, col, 1, 1, piece.color, << >>, 1))
        ELSE up

\* Board.evaluate, in half points
evaluate(b) ==
    2 * (b.white_left - b.black_left) + (b.white_kings - b.black_kings)

\* is_terminal that asks for both counters to be zero
is_terminal_both(b) == b.white_left = 0 /\ b.black_left = 0

\* Board.is_terminal
is_terminal(b) == b.white_left = 0 \/ b.black_left = 0

\* Board.clone: copy.deepcopy gives a board with equal, unshared contents
clone(b) == b

\* ---------------------------------------------------------------- minimax

\* Python's None as a best move; a move (piece, start, end) is [start, end],
\* the piece being the object in the start cell of the board searched
NoMove == [start |-> << -1, -1 >>, end |-> << -1, -1 >>]

Max(a, b) == IF a >= b THEN a ELSE b
Min(a, b) == IF a <= b THEN a ELSE b

\* the loop state of one minimax call: the board searched (its piece objects
\* may be written through the references handed to move_piece), the window,
\* and the running best (max_eval / min_eval, best_move).  explored, skips
\* and inverted record the run: the moves this call scored, in order, the
\* number of destinations the breaks of this call and of the calls below it
\* left out, and the number of children called, here and below, with
\* beta <= alpha (the window a break leaves to the next piece).
LoopInitZero(b, alpha, beta, maximizing_player) ==
    [board |-> b, alpha |-> alpha, beta |-> beta,
     best_eval |-> 0,
     best_move |-> NoMove,
     explored |-> << >>, skips |-> 0, inverted |-> 0]

LoopInit(b, alpha, beta, maximizing_player) ==
    [board |-> b, alpha |-> alpha, beta |-> beta,
     best_eval |-> IF maximizing_player THEN -Inf ELSE Inf,
     best_move |-> NoMove,
     explored |-> << >>, skips |-> 0, inverted |-> 0]

\* the cutoff test after a child is scored: if beta <= alpha: break
CutoffWithMargin(alpha, beta) == beta <= alpha + 2
Cutoff(alpha, beta) == beta <= alpha

\* the comparison made to let an equal score replace the running best
Better_or_equal(maximizing_player, evaluation, best_eval) ==
    IF maximizing_player THEN evaluation >= best_eval
    ELSE evaluation <= best_eval

\* the strict comparison that replaces the running best:
\* evaluation > max_eval for white, evaluation < min_eval for black
Better(maximizing_player, evaluation, best_eval) ==
    IF maximizing_player THEN evaluation > best_eval
    ELSE evaluation < best_eval

RECURSIVE minimax(_, _, _, _, _)
RECURSIVE MoveLoop(_, _, _, _, _, _, _)
RECURSIVE PieceLoop(_, _, _, _, _, _)
RECURSIVE PieceLoop_ends_node(_, _, _, _, _, _)

\* minimax(board, depth, alpha, beta, maximizing_player): [eval, move] is the
\* returned pair, board is the argument board as the call leaves it
minimax(b, depth, alpha, beta, maximizing_player) ==
    IF depth = 0 \/ is_terminal(b)
    THEN [eval |-> evaluate(b), move |-> NoMove, board |-> b,
          explored |-> << >>, skips |-> 0, inverted |-> 0]
    ELSE LET st == PieceLoop(LoopInit(b, alpha, beta, maximizing_player),
                             depth, maximizing_player,
                             get_all_pieces(b, IF maximizing_player
                                               THEN WHITE ELSE BLACK),
                             1,
                             Len(get_all_pieces(b, IF maximizing_player
                                                   THEN WHITE ELSE BLACK)))
         IN  [eval |-> st.best_eval, move |-> st.best_move, board |-> st.board,
              explored |-> st.explored, skips |-> st.skips,
              inverted |-> st.inverted]

\* the outer loop made to stop at the first piece it reaches with beta <= alpha
PieceLoop_ends_node(st, depth, maximizing_player, pieces, lo, hi) ==
    IF lo > hi \/ st.beta <= st.alpha THEN st
    ELSE IF lo = hi
    THEN LET row == pieces[lo][1]
             col == pieces[lo][2]
             moves == get_valid_moves(st.board, st.board.board[row][col],
                                      row, col)
         IN  MoveLoop(st, depth, maximizing_player, row, col, moves, 1)
    ELSE LET mid == (lo + hi) \div 2
         IN  CHOOSE after \in
                 { PieceLoop_ends_node(first, depth, maximizing_player, pieces, mid + 1, hi) :
                     first \in { PieceLoop_ends_node(st, depth, maximizing_player,
                                                     pieces, lo, mid) } } : TRUE

\* the outer loop: for piece, row, col in board.get_all_pieces(color), over
\* the pieces lo .. hi of the list.  A range of several pieces is run as its
\* first half, then its second half from the state the first half left, which
\* keeps the nesting of the evaluation logarithmic in the number of pieces.
PieceLoop(st, depth, maximizing_player, pieces, lo, hi) ==
    IF lo > hi THEN st
    ELSE IF lo = hi
    THEN LET row == pieces[lo][1]
             col == pieces[lo][2]
             moves == get_valid_moves(st.board, st.board.board[row][col],
                                      row, col)
         IN  MoveLoop(st, depth, maximizing_player, row, col, moves, 1)
    ELSE LET mid == (lo + hi) \div 2
         IN  CHOOSE after \in
                 { PieceLoop(first, depth, maximizing_player, pieces, mid + 1, hi) :
                     first \in { PieceLoop(st, depth, maximizing_player,
                                           pieces, lo, mid) } } : TRUE

\* the inner loop: for move, skipped in moves.items().  The piece passed to
\* new_board.move_piece is the object of the board being expanded, so the
\* clone's end cell and this board's (row, col) cell hold one object: what
\* the clone's subtree does to it shows in this board.
MoveLoop(st, depth, maximizing_player, row, col, moves, j) ==
    IF j > Len(moves) THEN st
    ELSE LET move == moves[j].to
             skipped == moves[j].skipped
             piece == st.board.board[row][col]
             new_board == remove_piece(
                              move_piece(clone(st.board), piece,
                                         << row, col >>, move),
                              skipped)
             child == minimax(new_board, depth - 1, st.alpha, st.beta,
                              ~maximizing_player)
             evaluation == child.eval
             shared == child.board.board[move[1]][move[2]]
             better == Better(maximizing_player, evaluation, st.best_eval)
             next == [board |-> [st.board EXCEPT !.board[row][col] = shared],
                      alpha |-> IF maximizing_player
                                THEN Max(st.alpha, evaluation) ELSE st.alpha,
                      beta |-> IF maximizing_player
                               THEN st.beta ELSE Min(st.beta, evaluation),
                      best_eval |-> IF better THEN evaluation ELSE st.best_eval,
                      best_move |-> IF better
                                    THEN [start |-> << row, col >>, end |-> move]
                                    ELSE st.best_move,
                      explored |-> Append(st.explored,
                                      [start |-> << row, col >>, end |-> move,
                                       alpha |-> IF maximizing_player
                                                 THEN Max(st.alpha, evaluation)
                                                 ELSE st.alpha,
                                       beta |-> IF maximizing_player
                                                THEN st.beta
                                                ELSE Min(st.beta, evaluation)]),
                      skips |-> st.skips + child.skips,
                      inverted |-> st.inverted + child.inverted
                                   + (IF st.beta <= st.alpha THEN 1 ELSE 0)]
         IN  IF Cutoff(next.alpha, next.beta)
             THEN [next EXCEPT !.skips = @ + (Len(moves) - j)]
             ELSE MoveLoop(next, depth, maximizing_player, row, col, moves, j + 1)

\* ---------------------------------------------------------------- state

VARIABLES
    board,      \* the live Board object
    last,       \* the last call made on it, with the board as it was before
    nmoves,     \* move_piece and remove_piece calls made so far
    nsearch     \* minimax calls made so far

vars == << board, last, nmoves, nsearch >>

Call(op, before, start, end, skipped, depth, maximizing, result) ==
    [op |-> op, before |-> before, start |-> start, end |-> end,
     skipped |-> skipped, depth |-> depth, maximizing |-> maximizing,
     eval |-> result.eval, move |-> result.move,
     explored |-> result.explored, skips |-> result.skips,
     inverted |-> result.inverted]

NoResult ==
    [eval |-> 0, move |-> NoMove, explored |-> << >>, skips |-> 0,
     inverted |-> 0]

NoCall(b) ==
    Call("init", b, << -1, -1 >>, << -1, -1 >>, << >>, 0, FALSE, NoResult)

\* a board holding the pieces of placed (a function from cells to pieces),
\* with the counters a scan of the grid gives
BoardOf(placed) ==
    LET at(color, king) ==
            Cardinality({p \in DOMAIN placed : placed[p] = Piece(color, king)})
    IN  [board |-> [row \in RowIdx |-> [col \in ColIdx |->
                      IF << row, col >> \in DOMAIN placed
                      THEN placed[<< row, col >>] ELSE EMPTY]],
         white_left |-> at(WHITE, FALSE) + at(WHITE, TRUE),
         black_left |-> at(BLACK, FALSE) + at(BLACK, TRUE),
         white_kings |-> at(WHITE, TRUE),
         black_kings |-> at(BLACK, TRUE)]

Pieces == { Piece(c, k) : c \in {WHITE, BLACK}, k \in BOOLEAN }

\* the boards with at most n pieces, of any color and rank, on cells of cells
BoardsOn(cells, n) ==
    UNION { { BoardOf(placed) : placed \in [S -> Pieces] } :
            S \in { T \in SUBSET cells : Cardinality(T) <= n } }

\* the cells the small boards are set up on: a corner of the grid next to
\* row 0 for the boards moves are made on, and the same with two cells next
\* to row ROWS - 1 for the boards that are searched
LabCells ==
    { << 0, 1 >>, << 1, 0 >>, << 1, 2 >>, << 2, 1 >>, << 2, 3 >>, << 3, 4 >> }

SearchCells == LabCells \cup { << 6, 1 >>, << 7, 2 >> }

LabBoards == BoardsOn(LabCells, MaxPieces)

SearchBoards == BoardsOn(SearchCells, MaxSearchPieces)

ApiBoards == BoardsOn(SearchCells, MaxApiPieces)

WindowCells == LabCells \ { << 3, 4 >> }

WindowBoards == BoardsOn(WindowCells, MaxWindowPieces)

\* the caller's use of a chosen move (main, lines 327-330): the capture list
\* is looked up again, the piece is moved and the captures are removed
ApplyMove(b, start, end) ==
    LET piece == b.board[start[1]][start[2]]
        moves == get_valid_moves(b, piece, start[1], start[2])
        hit == {i \in 1 .. Len(moves) : moves[i].to = end}
        skipped == moves[CHOOSE i \in hit : TRUE].skipped
    IN  remove_piece(move_piece(b, piece, start, end), skipped)

Destinations(b, start) ==
    LET moves == get_valid_moves(b, b.board[start[1]][start[2]],
                                 start[1], start[2])
    IN  { moves[i].to : i \in 1 .. Len(moves) }

SkippedOf(b, start, end) ==
    LET moves == get_valid_moves(b, b.board[start[1]][start[2]],
                                 start[1], start[2])
    IN  moves[CHOOSE i \in 1 .. Len(moves) : moves[i].to = end].skipped

Occupied(b) ==
    { << r, c >> \in RowIdx \X ColIdx : b.board[r][c] # EMPTY }

\* a legal move of the piece in start is applied to the live board
DoMove(start, end) ==
    /\ board' = ApplyMove(board, start, end)
    /\ last' = Call("move", board, start, end,
                    SkippedOf(board, start, end), 0, FALSE, NoResult)
    /\ nmoves' = nmoves + 1
    /\ UNCHANGED nsearch

\* minimax is called on the live board with the full window, as main does
DoSearch(depth, maximizing) ==
    LET r == minimax(board, depth, -Inf, Inf, maximizing)
    IN  /\ board' = r.board
        /\ last' = Call("minimax", board, << -1, -1 >>, << -1, -1 >>,
                        << >>, depth, maximizing, r)
        /\ nsearch' = nsearch + 1
        /\ UNCHANGED nmoves

\* ------------------------------------------------- the game, any legal play
\* From the standard layout, any piece of either color makes any legal move.

Init ==
    /\ board = NewBoard
    /\ last = NoCall(board)
    /\ nmoves = 0
    /\ nsearch = 0

Play ==
    /\ nmoves < MaxPlies
    /\ \E start \in Occupied(board) :
         \E end \in Destinations(board, start) : DoMove(start, end)

Next == Play

Spec == Init /\ [][Next]_vars

\* ------------------------------------------------- small boards, legal moves

InitLab ==
    /\ board \in LabBoards
    /\ last = NoCall(board)
    /\ nmoves = 0
    /\ nsearch = 0

Move ==
    /\ nmoves < MaxMoves
    /\ \E start \in Occupied(board) :
         \E end \in Destinations(board, start) : DoMove(start, end)

NextLab == Move

SpecLab == InitLab /\ [][NextLab]_vars

\* ------------------------------------------------- small boards, search
\* One turn of main's loop on a small board: the search for one side, then
\* the chosen move applied to the live board.

InitSearch ==
    /\ board \in SearchBoards
    /\ last = NoCall(board)
    /\ nmoves = 0
    /\ nsearch = 0

Search ==
    /\ last.op = "init"
    /\ \E depth \in 0 .. MaxDepth, maximizing \in BOOLEAN :
         DoSearch(depth, maximizing)

ApplyBest ==
    /\ last.op = "minimax"
    /\ last.move # NoMove
    /\ DoMove(last.move.start, last.move.end)

NextSearch == Search \/ ApplyBest

SpecSearch == InitSearch /\ [][NextSearch]_vars

\* ------------------------------------------------- small boards, raw calls
\* The Board methods called directly, as a caller that does not go through
\* get_valid_moves may: move_piece takes any piece of the board to any empty
\* cell one diagonal step away, whatever its color and rank, and remove_piece
\* takes any list of positions, and make_king is called on any piece.

DiagonalSteps == { << dr, dc >> : dr \in {-1, 1}, dc \in {-1, 1} }

EmptyNeighbours(b, start) ==
    { q \in RowIdx \X ColIdx :
        /\ << q[1] - start[1], q[2] - start[2] >> \in DiagonalSteps
        /\ b.board[q[1]][q[2]] = EMPTY }

InitApi ==
    /\ board \in ApiBoards
    /\ last = NoCall(board)
    /\ nmoves = 0
    /\ nsearch = 0

RawMove ==
    /\ nmoves < MaxCalls
    /\ \E start \in Occupied(board) :
         \E end \in EmptyNeighbours(board, start) :
            /\ board' = move_piece(board, board.board[start[1]][start[2]],
                                   start, end)
            /\ last' = Call("move_piece", board, start, end, << >>,
                            0, FALSE, NoResult)
    /\ nmoves' = nmoves + 1
    /\ UNCHANGED nsearch

\* make_king is called on a piece of the board, as board.get_piece(row,
\* col).make_king() does: the flag of the object in the cell is set and no
\* counter of the board is touched
RawMakeKing ==
    /\ nmoves < MaxCalls
    /\ \E p \in Occupied(board) :
          /\ board' = [board EXCEPT
                         !.board[p[1]][p[2]] = make_king(get_piece(board, p[1], p[2]))]
          /\ last' = Call("make_king", board, p, p, << >>, 0, FALSE, NoResult)
    /\ nmoves' = nmoves + 1
    /\ UNCHANGED nsearch

\* remove_piece is given any list of one or two positions, each an occupied
\* cell or the probe cell, which may be empty; a position may come twice
ProbeCell == << 2, 1 >>

RemovalLists(b) ==
    LET targets == Occupied(b) \cup {ProbeCell}
    IN  { << p >> : p \in targets } \cup { << p, q >> : p \in targets, q \in targets }

RawRemove ==
    /\ nmoves < MaxCalls
    /\ \E pieces \in RemovalLists(board) :
          /\ board' = remove_piece(board, pieces)
          /\ last' = Call("remove_piece", board, << -1, -1 >>, << -1, -1 >>,
                          pieces, 0, FALSE, NoResult)
    /\ nmoves' = nmoves + 1
    /\ UNCHANGED nsearch

SearchAny ==
    /\ nsearch < MaxSearches
    /\ \E depth \in 0 .. MaxDepth, maximizing \in BOOLEAN :
         DoSearch(depth, maximizing)

NextApi == RawMove \/ RawMakeKing \/ RawRemove \/ SearchAny

SpecApi == InitApi /\ [][NextApi]_vars

\* ------------------------------------- the game, any legal play in a strip
\* From the standard layout, any piece of either color makes any legal move
\* that starts and ends in the columns 0 .. MaxColumn.  Played in this strip
\* a game gets to the edge rows within a few moves: a white piece lands on
\* row 0 after 7 moves, a black piece on row ROWS - 1 after 8.

StripPlay ==
    /\ nmoves < MaxStripPlies
    /\ \E start \in Occupied(board) :
         \E end \in Destinations(board, start) :
            /\ start[2] <= MaxColumn
            /\ end[2] <= MaxColumn
            /\ DoMove(start, end)

NextStrip == StripPlay

SpecStrip == Init /\ [][NextStrip]_vars

\* ------------------------------------------------------- the loop of main
\* main: white starts and the sides alternate; each turn is a depth-3 search
\* on the live board for the side to move, then the move it returned.  The
\* loop ends on a terminal board or when the search returns no move.

MainDepth == 3

\* player_turn: white before the first move, switched after each move
player_turn == IF nmoves % 2 = 0 THEN WHITE ELSE BLACK

MainSearch ==
    /\ last.op # "minimax"
    /\ ~is_terminal(board)
    /\ nmoves < MaxGameMoves
    /\ DoSearch(MainDepth, player_turn = WHITE)

NextMain == MainSearch \/ ApplyBest

SpecMain == Init /\ [][NextMain]_vars

\* the step the loop has next, by what enables it and the counter it advances:
\* a search when no search result is pending and the board is not terminal,
\* the move when the pending search returned one
MainStep ==
    \/ /\ last.op # "minimax"
       /\ ~is_terminal(board)
       /\ nmoves < MaxGameMoves
       /\ nsearch' = nsearch + 1
       /\ nmoves' = nmoves
    \/ /\ last.op = "minimax"
       /\ last.move # NoMove
       /\ nmoves' = nmoves + 1
       /\ nsearch' = nsearch

\* the loop takes its next step whenever it has one
SpecMainFair == SpecMain /\ WF_<< nmoves, nsearch >>(MainStep)

\* one of the two game-over announcements of main has been made
GameOver ==
    \/ last.op # "minimax" /\ is_terminal(board)
    \/ last.op = "minimax" /\ last.move = NoMove

\* ------------------------------------------- small boards, any search window
\* minimax as it is called on the node of a search tree: with the window the
\* node above hands down, which may be any pair of scores, beta <= alpha
\* included (a cut-off leaves the loop of one piece only, so the next piece's
\* children are called with such a window).

Windows == { -Inf, -1, 1, Inf }

InitWindow ==
    /\ board \in WindowBoards
    /\ last = NoCall(board)
    /\ nmoves = 0
    /\ nsearch = 0

WindowSearch ==
    /\ last.op = "init"
    /\ \E depth \in 1 .. MaxWindowDepth, maximizing \in BOOLEAN :
       \E alpha \in Windows, beta \in Windows :
          LET r == minimax(board, depth, alpha, beta, maximizing)
          IN  /\ board' = r.board
              /\ last' = Call("minimax", board, << -1, -1 >>, << -1, -1 >>,
                              << >>, depth, maximizing, r)
              /\ nsearch' = nsearch + 1
              /\ UNCHANGED nmoves

NextWindow == WindowSearch

SpecWindow == InitWindow /\ [][NextWindow]_vars

\* ------------------------------------------- boards of three pieces, searched
\* The searches of SpecSearch on the boards of SpecWindow, where a side may
\* have two pieces and an opponent.

SpecTies == InitWindow /\ [][NextSearch]_vars

\* ------------------------------------------- standard layout, opening search
\* One search on the standard layout, at any depth and for either side, then
\* the move it found, or a few legal moves.

OpeningSearch ==
    /\ last.op = "init"
    /\ \E depth \in 0 .. MaxDepth, maximizing \in BOOLEAN :
          DoSearch(depth, maximizing)

OpeningPlay ==
    /\ nmoves < MaxOpeningPlies
    /\ Play

NextOpening == OpeningSearch \/ ApplyBest \/ OpeningPlay

SpecOpening == Init /\ [][NextOpening]_vars

\* ------------------------------------------------- small boards, one removal
\* remove_piece called once on a small board, with any of the lists.

RemoveOnce ==
    /\ last.op = "init"
    /\ RawRemove

NextRemove == RemoveOnce

SpecRemove == InitApi /\ [][NextRemove]_vars

\* ---------------------------------------------------------------- claims

SideOf(maximizing) == IF maximizing THEN WHITE ELSE BLACK

CellsOf(b, color) ==
    { p \in RowIdx \X ColIdx : b.board[p[1]][p[2]].color = color }

HasLegalMove(b, color) ==
    \E p \in CellsOf(b, color) : Destinations(b, p) # {}

BothColors(b) == CellsOf(b, WHITE) # {} /\ CellsOf(b, BLACK) # {}

\* C1: a minimax call with depth >= 1 and the full window on a board holding
\* pieces of both colors returns a none move only if no piece of the side to
\* move has a legal destination on that board.
C1_NoneMeansNoLegalMove ==
    ( /\ last.op = "minimax"
      /\ last.depth >= 1
      /\ BothColors(last.before)
      /\ ~is_terminal(last.before)
      /\ last.move = NoMove )
    => ~HasLegalMove(last.before, SideOf(last.maximizing))

\* the boards one legal move of color away from b
Successors(b, color) ==
    UNION { { ApplyMove(b, p, q) : q \in Destinations(b, p) } :
            p \in CellsOf(b, color) }

SetMax(S) == CHOOSE x \in S : \A y \in S : y <= x
SetMin(S) == CHOOSE x \in S : \A y \in S : x <= y

\* minimax without any cutoff: the value of a node is the evaluation at depth
\* 0 or on a terminal board, else the best child value for the side to move,
\* starting from the extremal score
RECURSIVE FullValue(_, _, _)
FullValue(b, depth, maximizing) ==
    IF depth = 0 \/ is_terminal(b) THEN evaluate(b)
    ELSE LET vals == { FullValue(nb, depth - 1, ~maximizing) :
                       nb \in Successors(b, SideOf(maximizing)) }
         IN  IF maximizing THEN SetMax(vals \cup {-Inf})
             ELSE SetMin(vals \cup {Inf})

\* C2: the score minimax returns with the full window equals the score of the
\* unpruned minimax of the same board, depth and side, on boards where a side
\* may have several pieces, so that a break goes on to the next piece.
C2_PrunedScoreEqualsFullScore ==
    last.op = "minimax"
    => last.eval = FullValue(last.before, last.depth, last.maximizing)

\* a search of depth 3 whose cutoffs left destinations unexplored, that went
\* on to a next piece after a break and so called a child with beta <= alpha,
\* and that returned a move and a score other than a draw
C2_Witness ==
    /\ last.op = "minimax"
    /\ last.depth = 3
    /\ last.skips >= 2
    /\ last.inverted >= 1
    /\ last.move # NoMove
    /\ last.eval # 0
    /\ last.eval = FullValue(last.before, last.depth, last.maximizing)

\* C3: on every board reached from the standard layout by legal moves and
\* their captures, each piece counter equals the number of cells holding a
\* piece of that color.
C3_PieceCountersMatchGrid ==
    /\ board.white_left = Cardinality(CellsOf(board, WHITE))
    /\ board.black_left = Cardinality(CellsOf(board, BLACK))

\* a capture has just been applied in a game from the standard layout
C3_Witness ==
    /\ last.op = "move"
    /\ last.skipped # << >>
    /\ board.white_left + board.black_left = 23
    /\ board.white_left = Cardinality(CellsOf(board, WHITE))
    /\ board.black_left = Cardinality(CellsOf(board, BLACK))

KingsLeft(b, color) == IF color = WHITE THEN b.white_kings ELSE b.black_kings
PiecesLeft(b, color) == IF color = WHITE THEN b.white_left ELSE b.black_left

\* the piece the last move or move_piece call was given, as it was before
MovedPiece == last.before.board[last.start[1]][last.start[2]]

\* the rank on which move_piece promotes a piece of that color
PromotionRow(color) == IF color = WHITE THEN ROWS - 1 ELSE 0

\* the row a non-king piece of that color advances by per step in
\* get_valid_moves, and the last row of the grid in that direction
ForwardStep(color) == IF color = WHITE THEN -1 ELSE 1
FarRow(color) == IF color = WHITE THEN 0 ELSE ROWS - 1

\* C4: on every board reached by legal moves and their captures from a board
\* whose counters agree with its grid, each king counter is at least 0 and at
\* most the piece counter of its color.
C4_KingCountersBounded ==
    \A color \in {WHITE, BLACK} :
        /\ KingsLeft(board, color) >= 0
        /\ KingsLeft(board, color) <= PiecesLeft(board, color)

\* C5: a move that takes a piece that is already a king onto the promotion
\* rank of its color leaves that color's king counter unchanged, and a move
\* raises the king counter of the mover's color only if the moved piece was
\* not a king before.
C5_KingRelandingKeepsCounter ==
    last.op = "move"
    => /\ ( MovedPiece.king /\ last.end[1] = PromotionRow(MovedPiece.color)
            => KingsLeft(board, MovedPiece.color)
                 = KingsLeft(last.before, MovedPiece.color) )
       /\ ( KingsLeft(board, MovedPiece.color)
              > KingsLeft(last.before, MovedPiece.color)
            => ~MovedPiece.king )

\* C6: a non-king piece moved in its forward direction onto the last row in
\* that direction is a king right after the move, and the king counter of its
\* color has grown by one.
C6_PromotedOnFarRow ==
    ( /\ last.op = "move"
      /\ ~MovedPiece.king
      /\ last.end[1] - last.start[1] \in
            { ForwardStep(MovedPiece.color), 2 * ForwardStep(MovedPiece.color) }
      /\ last.end[1] = FarRow(MovedPiece.color) )
    => /\ board.board[last.end[1]][last.end[2]].king
       /\ KingsLeft(board, MovedPiece.color)
            = KingsLeft(last.before, MovedPiece.color) + 1

AllPositions == RowIdx \X ColIdx

At(b, p) == b.board[p[1]][p[2]]

InGrid(p) == p[1] \in RowIdx /\ p[2] \in ColIdx

\* where the piece object that was in cell p before the last call is now
NowAt(p) ==
    IF last.op \in {"move", "move_piece"} /\ p = last.start THEN last.end ELSE p

\* C7: a white piece put on row 7 by move_piece (a black piece on row 0) is a
\* king right after the call, and a piece that was a king before a call
\* (move_piece, make_king, remove_piece, minimax and the clones it makes) is
\* still a king after it wherever it is on the board.
C7_PromotionRankAndPermanence ==
    /\ ( last.op \in {"move", "move_piece"}
         /\ last.end[1] = PromotionRow(MovedPiece.color)
         => At(board, last.end).king )
    /\ \A p \in AllPositions :
          At(last.before, p).king
          => At(board, NowAt(p)) = EMPTY \/ At(board, NowAt(p)).king

\* move_piece has just put a white piece that was not a king on row 7, and it
\* is a king
C7_Witness ==
    /\ last.op = "move_piece"
    /\ MovedPiece = Piece(WHITE, FALSE)
    /\ last.end[1] = ROWS - 1
    /\ At(board, last.end) = Piece(WHITE, TRUE)

\* C8: a minimax call leaves the board it was given as it was: the same piece
\* (color and king flag) in every cell and the same four counters.
C8_SearchLeavesBoardUnchanged ==
    last.op = "minimax" => board = last.before

\* a search of depth 3 that scored moves of a king next to its promotion rank
\* has returned
C8_Witness ==
    /\ last.op = "minimax"
    /\ last.depth = 3
    /\ last.move # NoMove
    /\ Len(last.explored) >= 2
    /\ \E p \in AllPositions :
          /\ At(last.before, p).king
          /\ At(last.before, p).color = SideOf(last.maximizing)
          /\ \E i \in 1 .. Len(last.explored) :
                /\ last.explored[i].start = p
                /\ last.explored[i].end[1] = PromotionRow(At(last.before, p).color)
    /\ board = last.before

\* the directions get_valid_moves lets a piece move in
DirectionsOf(piece) ==
    { d \in DiagonalSteps : piece.king \/ d[1] = ForwardStep(piece.color) }

Step(p, d, n) == << p[1] + n * d[1], p[2] + n * d[2] >>

Opposite(color) == IF color = WHITE THEN BLACK ELSE WHITE

\* the items of get_valid_moves for the piece in cell p, as a set
MoveItems(b, p) ==
    LET moves == get_valid_moves(b, At(b, p), p[1], p[2])
    IN  { moves[i] : i \in 1 .. Len(moves) }

\* C9: for every piece of the board and every direction it may move in: if
\* the adjacent cell holds a piece of the other color and the cell two steps
\* away is in the grid and empty, get_valid_moves has that cell with the
\* capture list of exactly the jumped cell; if the adjacent cell holds a piece
\* and the landing cell is occupied or off the grid, or the adjacent piece has
\* the mover's color, neither cell is a destination.
C9_CaptureCorrectness ==
    \A p \in Occupied(board) : \A d \in DirectionsOf(At(board, p)) :
        LET adj == Step(p, d, 1)
            land == Step(p, d, 2)
            enemy == InGrid(adj)
                     /\ At(board, adj).color = Opposite(At(board, p).color)
            own == InGrid(adj) /\ At(board, adj).color = At(board, p).color
            free == InGrid(land) /\ At(board, land) = EMPTY
            items == MoveItems(board, p)
        IN  /\ ( enemy /\ free
                 => /\ [to |-> land, skipped |-> << adj >>] \in items
                    /\ \A it \in items : it.to = land => it.skipped = << adj >> )
            /\ ( (enemy /\ ~free) \/ own
                 => \A it \in items : it.to # adj /\ it.to # land )

\* the board of the example: white at (3,4), black at (2,3), (1,2) empty, and
\* the white piece has destination (1,2) with capture list [(2,3)]
C9_Witness ==
    /\ At(board, << 3, 4 >>) = Piece(WHITE, FALSE)
    /\ At(board, << 2, 3 >>) = Piece(BLACK, FALSE)
    /\ At(board, << 1, 2 >>) = EMPTY
    /\ Occupied(board) = { << 3, 4 >>, << 2, 3 >> }
    /\ [to |-> << 1, 2 >>, skipped |-> << << 2, 3 >> >>]
          \in MoveItems(board, << 3, 4 >>)

\* C10: a minimax call with depth >= 1 on a non-terminal board on which no
\* piece of the side to move has a legal destination returns a none move and
\* the initial extremal score: -inf for white, +inf for black.
C10_NoLegalMoveGivesNoneAndExtremal ==
    ( /\ last.op = "minimax"
      /\ last.depth >= 1
      /\ ~is_terminal(last.before)
      /\ ~HasLegalMove(last.before, SideOf(last.maximizing)) )
    => /\ last.move = NoMove
       /\ last.eval = IF last.maximizing THEN -Inf ELSE Inf

\* white to move, blocked on a board with pieces of both colors: the search
\* gave none and -inf
C10_Witness ==
    /\ last.op = "minimax"
    /\ last.depth = 3
    /\ last.maximizing
    /\ BothColors(last.before)
    /\ ~is_terminal(last.before)
    /\ ~HasLegalMove(last.before, WHITE)
    /\ HasLegalMove(last.before, BLACK)
    /\ last.move = NoMove
    /\ last.eval = -Inf

\* C11: is_terminal is true exactly when some color has no piece on the grid,
\* and a minimax call on a terminal board or with depth 0 returns the board's
\* evaluation and a none move, for either side, without scoring any move.
C11_TerminalDetectionAndCutoff ==
    /\ is_terminal(board)
         <=> (CellsOf(board, WHITE) = {} \/ CellsOf(board, BLACK) = {})
    /\ ( last.op = "minimax"
         /\ ( last.depth = 0
              \/ CellsOf(last.before, WHITE) = {}
              \/ CellsOf(last.before, BLACK) = {} )
         => /\ last.eval = evaluate(last.before)
            /\ last.move = NoMove
            /\ last.explored = << >> )

\* black to move at depth 3 on a board that holds white pieces only, one of
\* them with a legal move: the search gave the evaluation and no move
C11_Witness ==
    /\ last.op = "minimax"
    /\ last.depth = 3
    /\ ~last.maximizing
    /\ CellsOf(last.before, BLACK) = {}
    /\ HasLegalMove(last.before, WHITE)
    /\ is_terminal(last.before)
    /\ last.move = NoMove
    /\ last.eval = evaluate(last.before)
    /\ last.eval > 0

\* the positions of a list, as a set
PositionsOf(pieces) == { pieces[i] : i \in 1 .. Len(pieces) }

\* the pieces of a color, or the kings of a color, that a board holds on the
\* positions of a list
HeldOn(b, pieces, color) ==
    { p \in PositionsOf(pieces) : At(b, p).color = color }
KingsHeldOn(b, pieces, color) ==
    { p \in HeldOn(b, pieces, color) : At(b, p).king }

\* C12: remove_piece clears every listed position that holds a piece and
\* lowers that color's piece counter by one for it, and its king counter by one
\* exactly when the piece is a king; a listed position that holds no piece,
\* or that comes a second time, changes nothing; every other cell is kept.
C12_RemovePieceIgnoresEmpty ==
    last.op = "remove_piece"
    => /\ \A p \in AllPositions :
             At(board, p) = IF p \in PositionsOf(last.skipped) THEN EMPTY
                            ELSE At(last.before, p)
       /\ \A color \in {WHITE, BLACK} :
             /\ PiecesLeft(board, color)
                  = PiecesLeft(last.before, color)
                      - Cardinality(HeldOn(last.before, last.skipped, color))
             /\ KingsLeft(board, color)
                  = KingsLeft(last.before, color)
                      - Cardinality(KingsHeldOn(last.before, last.skipped, color))

\* remove_piece was given a king's position twice on a two-piece board whose
\* probe cell is empty: one piece and one king less, the other piece kept
C12_Witness ==
    /\ last.op = "remove_piece"
    /\ Len(last.skipped) = 2
    /\ last.skipped[1] = last.skipped[2]
    /\ At(last.before, last.skipped[1]).king
    /\ At(last.before, ProbeCell) = EMPTY
    /\ Cardinality(Occupied(last.before)) = 2
    /\ Cardinality(Occupied(board)) = 1
    /\ board.white_kings + board.black_kings
         = last.before.white_kings + last.before.black_kings - 1

\* C13: for every piece of the board, every destination of get_valid_moves is
\* an empty cell of the grid, one diagonal step away with an empty capture
\* list or two diagonal steps away with a capture list of exactly the cell in
\* between; no capture list is longer than one; and a destination of a piece
\* that is not a king lies in the forward row direction of its color.
C13_SingleHopDirectionRestricted ==
    \A p \in Occupied(board) : \A it \in MoveItems(board, p) :
        /\ InGrid(it.to)
        /\ At(board, it.to) = EMPTY
        /\ Len(it.skipped) <= 1
        /\ \E d \in DiagonalSteps :
              \/ it.to = Step(p, d, 1) /\ it.skipped = << >>
              \/ it.to = Step(p, d, 2) /\ it.skipped = << Step(p, d, 1) >>
        /\ ( ~At(board, p).king
             => (it.to[1] - p[1]) * ForwardStep(At(board, p).color) > 0 )

\* a king with a plain step to a lower row and a capture to a higher row,
\* next to a non-king of its color that has a destination
C13_Witness ==
    \E p \in Occupied(board) :
        /\ At(board, p).king
        /\ \E it \in MoveItems(board, p) :
              it.to[1] = p[1] - 1 /\ it.skipped = << >>
        /\ \E it \in MoveItems(board, p) :
              it.to[1] = p[1] + 2 /\ Len(it.skipped) = 1
        /\ \E q \in Occupied(board) :
              /\ At(board, q) = Piece(At(board, p).color, FALSE)
              /\ MoveItems(board, q) # {}

\* C14: on the standard initial board, minimax with depth 1 and the full
\* window for white returns a move whose start cell holds a white piece in
\* row 5 and whose end cell is an empty cell in row 4, with an empty capture
\* list.
C14_OpeningMove ==
    ( /\ last.op = "minimax"
      /\ last.before = NewBoard
      /\ last.depth = 1
      /\ last.maximizing )
    => /\ last.move # NoMove
       /\ last.move.start[1] = 5
       /\ At(last.before, last.move.start).color = WHITE
       /\ last.move.end[1] = 4
       /\ At(last.before, last.move.end) = EMPTY
       /\ last.move.end \in Destinations(last.before, last.move.start)
       /\ SkippedOf(last.before, last.move.start, last.move.end) = << >>

\* the depth-1 search for white on the standard layout returned the first
\* move of the scan, (5,1) to (4,0), after scoring the seven opening moves
C14_Witness ==
    /\ last.op = "minimax"
    /\ last.before = NewBoard
    /\ last.depth = 1
    /\ last.maximizing
    /\ last.move = [start |-> << 5, 1 >>, end |-> << 4, 0 >>]
    /\ Len(last.explored) = 7
    /\ last.eval = 0

\* the destinations of the piece in cell p, in the order of get_valid_moves
MoveList(b, p) == get_valid_moves(b, At(b, p), p[1], p[2])

\* row-major order of two cells
RowMajor(p, q) == p[1] * COLS + p[2] <= q[1] * COLS + q[2]

\* C15: in the list of the children a minimax node scores: a child after
\* which beta <= alpha is the last one of its piece; the pieces come in
\* row-major order; every piece of the side to move that has a legal
\* destination has its first destination scored, whatever cut-offs came
\* before it; and a child after which beta > alpha is followed by the next
\* destination of its piece when there is one.
C15_CutoffScopedToPiece ==
    last.op = "minimax" /\ last.depth >= 1 /\ ~is_terminal(last.before)
    => LET E == last.explored
           side == SideOf(last.maximizing)
       IN  /\ \A i \in 1 .. Len(E) - 1 :
                 /\ E[i].beta <= E[i].alpha => E[i + 1].start # E[i].start
                 /\ RowMajor(E[i].start, E[i + 1].start)
           /\ \A p \in CellsOf(last.before, side) :
                 MoveList(last.before, p) # << >>
                 => \E i \in 1 .. Len(E) :
                       /\ E[i].start = p
                       /\ E[i].end = MoveList(last.before, p)[1].to
                       /\ i > 1 => E[i - 1].start # p
           /\ \A i \in 1 .. Len(E) :
                 LET moves == MoveList(last.before, E[i].start)
                 IN  \E j \in 1 .. Len(moves) :
                        /\ moves[j].to = E[i].end
                        /\ ( E[i].beta > E[i].alpha /\ j < Len(moves)
                             => /\ i < Len(E)
                                /\ E[i + 1].start = E[i].start
                                /\ E[i + 1].end = moves[j + 1].to )

\* a node where the first child of a piece that has two destinations gave
\* beta <= alpha, its second destination was not scored, and the first
\* destination of a later piece was
C15_Witness ==
    /\ last.op = "minimax"
    /\ Len(last.explored) >= 2
    /\ Len(MoveList(last.before, last.explored[1].start)) = 2
    /\ last.explored[1].beta <= last.explored[1].alpha
    /\ last.explored[2].start # last.explored[1].start
    /\ last.explored[2].end
         = MoveList(last.before, last.explored[2].start)[1].to
    /\ last.skips >= 1

\* the moves of a side in scan order: cell p of a piece and index j in the
\* list of its destinations
ScanMoves(b, color) ==
    UNION { { << p, j >> : j \in 1 .. Len(MoveList(b, p)) } :
            p \in CellsOf(b, color) }

ScansBefore(c, d) ==
    \/ c[1] # d[1] /\ RowMajor(c[1], d[1])
    \/ c[1] = d[1] /\ c[2] < d[2]

\* the unpruned minimax value of a move of the scan
ScanValue(b, c, depth, maximizing) ==
    FullValue(ApplyMove(b, c[1], MoveList(b, c[1])[c[2]].to),
              depth - 1, ~maximizing)

\* x is strictly better than y for the side to move
StrictlyBetter(maximizing, x, y) == IF maximizing THEN x > y ELSE x < y

\* C16: the move minimax returns with the full window is the move an unpruned
\* minimax with the same strict comparisons returns: the first move of the
\* scan whose unpruned value equals the best score of the side to move (a
\* later move of equal value does not replace it), and none when no move's
\* value is strictly better than the extremal score the comparisons start from.
C16_TieBreakUnderPruning ==
    last.op = "minimax" /\ last.depth >= 1 /\ ~is_terminal(last.before)
    => LET b == last.before
           m == last.maximizing
           best == FullValue(b, last.depth, m)
           winners == { c \in ScanMoves(b, SideOf(m)) :
                          ScanValue(b, c, last.depth, m) = best }
           start_score == IF m THEN -Inf ELSE Inf
       IN  IF ~StrictlyBetter(m, best, start_score)
           THEN last.move = NoMove
           ELSE \E c \in winners :
                   /\ last.move = [start |-> c[1],
                                   end |-> MoveList(b, c[1])[c[2]].to]
                   /\ \A d \in winners : d = c \/ ScansBefore(c, d)

\* a depth-3 search whose cut-offs left destinations out returned the first
\* of two moves of equal unpruned value other than a draw, the second one a
\* move of another piece
C16_Witness ==
    /\ last.op = "minimax"
    /\ last.depth = 3
    /\ last.skips >= 1
    /\ last.move # NoMove
    /\ \E c \in ScanMoves(last.before, SideOf(last.maximizing)) :
       \E d \in ScanMoves(last.before, SideOf(last.maximizing)) :
          /\ last.move = [start |-> c[1],
                          end |-> MoveList(last.before, c[1])[c[2]].to]
          /\ ScansBefore(c, d)
          /\ c[1] # d[1]
          /\ ScanValue(last.before, c, 3, last.maximizing)
               = ScanValue(last.before, d, 3, last.maximizing)
          /\ ScanValue(last.before, c, 3, last.maximizing) # 0

\* C17: a move minimax returns is legal on the board it was given: its start
\* cell holds a piece of the side to move, its end cell is a destination
\* get_valid_moves has for that piece on that board, and is empty; and on the
\* board as the search leaves it, where the game loop looks the move up again,
\* the start cell holds the same piece and the end cell is still one of its
\* destinations and empty.
C17_ReturnedMoveIsLegal ==
    last.op = "minimax" /\ last.move # NoMove
    => LET start == last.move.start
           end == last.move.end
       IN  /\ InGrid(start) /\ InGrid(end)
           /\ At(last.before, start).color = SideOf(last.maximizing)
           /\ \E j \in 1 .. Len(MoveList(last.before, start)) :
                 MoveList(last.before, start)[j].to = end
           /\ At(last.before, end) = EMPTY
           /\ At(board, start) = At(last.before, start)
           /\ \E j \in 1 .. Len(MoveList(board, start)) :
                 MoveList(board, start)[j].to = end
           /\ At(board, end) = EMPTY

\* black to move: a depth-2 search returned a capture by a black king, and the
\* capture list the game loop looks up holds the one white piece jumped
C17_Witness ==
    /\ last.op = "minimax"
    /\ last.depth = 2
    /\ ~last.maximizing
    /\ last.move # NoMove
    /\ At(board, last.move.start) = Piece(BLACK, TRUE)
    /\ Len(SkippedOf(board, last.move.start, last.move.end)) = 1
    /\ At(board, SkippedOf(board, last.move.start, last.move.end)[1]).color = WHITE

\* C18: in a game played from the standard layout by legal moves, every piece
\* of every board is a non-king and both king counters are 0; each move takes
\* a non-king piece toward the far row of its color (white to a lower row,
\* black to a higher row) and never onto the promotion rank of its color.
C18_NoPromotionInPlay ==
    /\ \A p \in AllPositions : ~At(board, p).king
    /\ board.white_kings = 0
    /\ board.black_kings = 0
    /\ ( last.op = "move"
         => /\ ~MovedPiece.king
            /\ (last.end[1] - last.start[1]) * ForwardStep(MovedPiece.color) > 0
            /\ last.end[1] # PromotionRow(MovedPiece.color) )

\* a black piece that is not a king has just landed on row ROWS - 1, the far
\* row of its color and the promotion rank of white, and the board has no king
C18_Witness ==
    /\ last.op = "move"
    /\ MovedPiece = Piece(BLACK, FALSE)
    /\ last.end[1] = ROWS - 1
    /\ At(board, last.end) = Piece(BLACK, FALSE)
    /\ \A p \in Occupied(board) : ~At(board, p).king
    /\ KingsLeft(board, WHITE) = 0 /\ KingsLeft(board, BLACK) = 0

\* C19: the loop of main, started on the standard layout with white to move,
\* reaches a game-over announcement (a terminal board, or a search that
\* returns no move for the side to move) after finitely many moves.
C19_GameTerminates == <>GameOver

\* the game main plays is over after 60 moves: the search for white, whose
\* turn it is, returned no move on a board that still has pieces of both colors
C19_Witness ==
    /\ GameOver
    /\ nmoves = 60
    /\ player_turn = WHITE
    /\ last.op = "minimax"
    /\ last.move = NoMove
    /\ BothColors(board)

====
